---------------------------- MODULE Spec2Model ----------------------------
(***************************************************************************)
(* django-socialregistration: the views of socialregistration/views.py as  *)
(* a state machine over the account/profile store and the browser          *)
(* sessions.  One action is one HTTP request handled by one view.          *)
(*                                                                         *)
(* A view is an operator from a request context c = [users, profiles,      *)
(* sess] (the store and the requesting session) and the request inputs to  *)
(* a result [users, profiles, sess, resp].  A view that raises returns     *)
(* resp.kind = "error" together with whatever it had already written to    *)
(* the store (every save commits on its own).                              *)
(***************************************************************************)
EXTENDS Naturals, Integers, Sequences, FiniteSets, TLC

VARIABLES
    users,              \* django.contrib.auth User table: pk = index
    profiles,           \* Facebook/Twitter/OpenIDProfile rows in pk order
    session,            \* request.session and request.user of every browser
    GENERATE_USERNAME,  \* settings.SOCIALREGISTRATION_GENERATE_USERNAME
    enabled,            \* the provider whose urls and auth backend the site has switched on
    last,               \* the last request handled: its view, its session, the response
    inflight,           \* the requests being handled: what each has read so far
    extra_context       \* the keys of the default extra_context dict of each view:
                        \* one dict per view function, made when views.py is imported

vars ==
    <<users, profiles, session, GENERATE_USERNAME, enabled, last, inflight, extra_context>>

----------------------------------------------------------------------------
(* Bounds of the model *)

MaxProfiles == 2

\* requests the server handles at the same time
MaxRequests == 2

Sessions == {"s1", "s2"}
Providers == {"facebook", "twitter", "openid"}
Rids == {"r1", "r2"}
Tokens == {"t1", "t2"}
FormUsernames == {"alice", "bob"}
FormPasswords == {"pw", "wrong"}

\* one account for each username the forms post; with username generation
\* on, the generated account is the second one
MaxUsers == Cardinality(FormUsernames)

----------------------------------------------------------------------------
(* Values *)

None == "None"
Absent == "absent"
NoCred == ""

Anonymous == 0

EmptyPassword == ""
UnusablePassword == "!"

UserType == "User"
ArticleType == "Article"
UserTarget(pk) == <<UserType, pk>>
Article == <<ArticleType, 1>>
DomainObjects == {Article}

\* request.session['socialregistration_connect_object']: key absent, None, or an object
AbsentObj == <<Absent, 0>>
NoneObj == <<None, 0>>
\* content_object of a profile that was never saved
Unsaved == <<None, 0>>

LOGIN_REDIRECT_URL == "/accounts/profile/"
LOGIN_URL == "/accounts/login/"
LOGOUT_REDIRECT_URL == "/"
SETUP_URL == "socialregistration_setup"
PROVIDER_URL == "provider"

Redirect(url) == [kind |-> "redirect", to |-> url, ctx |-> {}]
Notice(url) == [kind |-> "redirect", to |-> url, ctx |-> {"notice"}]
Render(template, context) == [kind |-> "render", to |-> template, ctx |-> context]
Raise(exc) == [kind |-> "error", to |-> exc, ctx |-> {}]

Ret(c, s, r) == [users |-> c.users, profiles |-> c.profiles, sess |-> s, resp |-> r]
RetStore(us, ps, s, r) == [users |-> us, profiles |-> ps, sess |-> s, resp |-> r]

Profile(provider, rid, target, key, secret) ==
    [provider |-> provider, rid |-> rid, target |-> target,
     key |-> key, secret |-> secret]

NoProfile == Profile(None, None, Unsaved, NoCred, NoCred)

NewSession ==
    [user |-> Anonymous, sr_user |-> FALSE, sr_profile |-> NoProfile,
     cobj |-> AbsentObj, next |-> Absent, openid_error |-> FALSE,
     disconnect_url |-> Absent]

NewUser(username, password) ==
    [username |-> username, password |-> password, is_active |-> TRUE]

----------------------------------------------------------------------------
(* The store: the Django ORM calls the views make *)

\* the keyword arguments of objects.filter(...) and objects.get(...) on the
\* profile model of a provider: the fields named in by, and their values
Filter(provider, by, rid, target) ==
    [provider |-> provider, by |-> by, rid |-> rid, target |-> target]

Matches(p, q) ==
    /\ p.provider = q.provider
    /\ "remote_id" \in q.by => p.rid = q.rid
    /\ "content_type" \in q.by => p.target[1] = q.target[1]
    /\ "object_id" \in q.by => p.target[2] = q.target[2]

Matching(ps, q) == SelectSeq(ps, LAMBDA p : Matches(p, q))

Index(ps, q) ==
    CHOOSE i \in 1..Len(ps) : Matches(ps[i], q) /\ \A j \in 1..(i - 1) : ~Matches(ps[j], q)

Remove(ps, i) == [j \in 1..(Len(ps) - 1) |-> IF j < i THEN ps[j] ELSE ps[j + 1]]

TargetExists(us, t) ==
    IF t[1] = UserType THEN t[2] \in 1..Len(us) ELSE t \in DomainObjects

IsUserProfile(p) == p.target[1] = UserType

Usernames(us) == {us[i].username : i \in 1..Len(us)}

UserNamed(us, name) == CHOOSE i \in 1..Len(us) : us[i].username = name

has_usable_password(u) == u.password \notin {EmptyPassword, UnusablePassword}

----------------------------------------------------------------------------
(* Collaborators outside views.py: auth backends, forms, django login *)

\* IdentityResolver.resolve(provider, remote_id): the local account the
\* identity is bound to, or Anonymous (None) when there is none
authenticate(ps, provider, rid) ==
    LET m == Matching(ps, Filter(provider, {"remote_id", "content_type"}, rid, UserTarget(0)))
    IN  IF Len(m) = 0 THEN Anonymous ELSE m[1].target[2]

\* django.contrib.auth.login: the session of another user is flushed first
login(s, user) ==
    IF s.user # Anonymous /\ s.user # user
    THEN [NewSession EXCEPT !.user = user]
    ELSE [s EXCEPT !.user = user]

\* UserForm.is_valid(): "valid" when no account has the username, raises
\* ExistingUser when an account with a usable password has it, else invalid
UserForm(us, post) ==
    IF post.username \notin Usernames(us) THEN "valid"
    ELSE IF has_usable_password(us[UserNamed(us, post.username)]) THEN "ExistingUser"
    ELSE "invalid"

\* ClaimForm.is_valid(): bound, and the password is the one of the account
ClaimForm(us, post, bound) ==
    /\ bound
    /\ post.username \in Usernames(us)
    /\ has_usable_password(us[UserNamed(us, post.username)])
    /\ us[UserNamed(us, post.username)].password = post.password

----------------------------------------------------------------------------
(* views.py *)

\* ORM get(): the one matching row, else DoesNotExist / MultipleObjectsReturned
Get(ps, q) ==
    LET m == Matching(ps, q)
    IN  IF Len(m) = 0 THEN "DoesNotExist"
        ELSE IF Len(m) > 1 THEN "MultipleObjectsReturned"
        ELSE "found"

HasAbsoluteUrl(t) == t[1] = UserType

DISCONNECT_URL_SETTING == ""

post_disconnect_redirect_url(instance, session_url) ==
    IF HasAbsoluteUrl(instance) THEN <<"absolute_url", instance>>
    ELSE IF session_url # Absent THEN <<"session", session_url>>
    ELSE IF DISCONNECT_URL_SETTING # "" THEN <<"setting", DISCONNECT_URL_SETTING>>
    ELSE <<"root", "/">>

\* mutant: the request method is not looked at
disconnect_any_method(c, method, network, target) ==
    LET q == Filter(network, {"content_type", "object_id"}, None, target)
        got == Get(c.profiles, q)
    IN  IF got # "found" THEN Ret(c, c.sess, Raise(got))
        ELSE IF ~TargetExists(c.users, target) THEN Ret(c, c.sess, Raise("DoesNotExist"))
        ELSE RetStore(c.users, Remove(c.profiles, Index(c.profiles, q)), c.sess,
                      Redirect(post_disconnect_redirect_url(target, Absent)))

disconnect(c, method, network, target) ==
    LET q == Filter(network, {"content_type", "object_id"}, None, target)
        got == Get(c.profiles, q)
    IN  IF got # "found" THEN Ret(c, c.sess, Raise(got))
        ELSE IF ~TargetExists(c.users, target) THEN Ret(c, c.sess, Raise("DoesNotExist"))
        ELSE IF method = "POST"
        THEN RetStore(c.users, Remove(c.profiles, Index(c.profiles, q)), c.sess,
                      Redirect(post_disconnect_redirect_url(target, Absent)))
        ELSE Ret(c, c.sess, Render("confirm_disconnect.html", {"profile", "instance"}))

_get_next(s, rq) ==
    IF s.next # Absent THEN [url |-> s.next, sess |-> [s EXCEPT !.next = Absent]]
    ELSE IF rq.get_next # Absent THEN [url |-> rq.get_next, sess |-> s]
    ELSE IF rq.post_next # Absent THEN [url |-> rq.post_next, sess |-> s]
    ELSE [url |-> LOGIN_REDIRECT_URL, sess |-> s]

\* login(request, None) uses request.user, and fails when that is AnonymousUser
_authenticate_login_redirect(c, rq) ==
    LET sp == c.sess.sr_profile
        user == authenticate(c.profiles, sp.provider, sp.rid)
    IN  IF user = Anonymous /\ c.sess.user = Anonymous
        THEN Ret(c, c.sess, Raise("NotImplementedError"))
        ELSE LET s1 == login(c.sess, IF user = Anonymous THEN c.sess.user ELSE user)
                 s2 == [s1 EXCEPT !.sr_user = FALSE, !.sr_profile = NoProfile]
                 n == _get_next(s2, rq)
             IN  Ret(c, n.sess, Redirect(n.url))

\* a request that raises does not save its session
Handled(c, r) == IF r.resp.kind = "error" THEN [r EXCEPT !.sess = c.sess] ELSE r

\* the profiles of the pending profile's class that have its remote id
existing_profiles(c) ==
    Matching(c.profiles,
             Filter(c.sess.sr_profile.provider, {"remote_id"}, c.sess.sr_profile.rid, Unsaved))

setup_existing(c, rq) ==
    LET linked == [c.sess.sr_profile EXCEPT !.target = existing_profiles(c)[1].target]
        c1 == [c EXCEPT !.profiles = Append(c.profiles, linked), !.sess.sr_profile = linked]
    IN  _authenticate_login_redirect(c1, rq)

\* mutant: the claim form is saved without being validated
setup_claim_unchecked(c, post, rq) ==
    LET claimed == UserNamed(c.users, post.username)
        saved == [c.sess.sr_profile EXCEPT !.target = UserTarget(claimed)]
        c1 == [c EXCEPT !.profiles = Append(c.profiles, saved), !.sess.sr_profile = saved]
    IN  _authenticate_login_redirect(c1, rq)

\* mutant: the claimed account gets the unusable password of a new account
setup_claim_resets_password(c, post, rq) ==
    IF ClaimForm(c.users, post, post.submitted)
    THEN LET claimed == UserNamed(c.users, post.username)
             saved == [c.sess.sr_profile EXCEPT !.target = UserTarget(claimed)]
             c1 == [c EXCEPT !.profiles = Append(c.profiles, saved), !.sess.sr_profile = saved,
                             !.users[claimed].password = UnusablePassword]
         IN  _authenticate_login_redirect(c1, rq)
    ELSE Ret(c, c.sess, Render("setup.html", {"form", "claim_account"}))

setup_claim(c, post, rq) ==
    IF ClaimForm(c.users, post, post.submitted)
    THEN LET claimed == UserNamed(c.users, post.username)
             saved == [c.sess.sr_profile EXCEPT !.target = UserTarget(claimed)]
             c1 == [c EXCEPT !.profiles = Append(c.profiles, saved), !.sess.sr_profile = saved]
         IN  _authenticate_login_redirect(c1, rq)
    ELSE Ret(c, c.sess, Render("setup.html", {"form", "claim_account"}))

\* mutant: user.set_unusable_password() is left out
setup_form_empty_password(c, method, post, rq) ==
    IF method # "POST"
    THEN Ret(c, c.sess, Render("setup.html", {"form"}))
    ELSE IF UserForm(c.users, post) = "valid"
    THEN LET us1 == Append(c.users, NewUser(post.username, EmptyPassword))
             saved == [c.sess.sr_profile EXCEPT !.target = UserTarget(Len(us1))]
             c1 == [users |-> us1, profiles |-> Append(c.profiles, saved),
                    sess |-> [c.sess EXCEPT !.sr_profile = saved]]
         IN  _authenticate_login_redirect(c1, rq)
    ELSE IF UserForm(c.users, post) = "ExistingUser"
    THEN setup_claim(c, post, rq)
    ELSE Ret(c, c.sess, Render("setup.html", {"form"}))

\* form.save(), form.profile.authenticate(), user.set_unusable_password(),
\* user.save(), and the login
setup_create(c, post, rq) ==
    LET us1 == Append(c.users, NewUser(post.username, EmptyPassword))
        saved == [c.sess.sr_profile EXCEPT !.target = UserTarget(Len(us1))]
        ps1 == Append(c.profiles, saved)
        user == authenticate(ps1, saved.provider, saved.rid)
        us2 == [us1 EXCEPT ![user].password = UnusablePassword]
        c1 == [users |-> us2, profiles |-> ps1,
               sess |-> [c.sess EXCEPT !.sr_profile = saved]]
    IN  _authenticate_login_redirect(c1, rq)

setup_form(c, method, post, rq) ==
    IF method # "POST"
    THEN Ret(c, c.sess, Render("setup.html", {"form"}))
    ELSE IF UserForm(c.users, post) = "valid"
    THEN setup_create(c, post, rq)
    ELSE IF UserForm(c.users, post) = "ExistingUser"
    THEN setup_claim(c, post, rq)
    ELSE Ret(c, c.sess, Render("setup.html", {"form"}))

\* str(uuid.uuid4())[:30]: random values, taken to differ from each other
\* and from every name a form posts; the k-th account gets the k-th value
Uuid4 == <<"uuid4-1", "uuid4-2", "uuid4-3">>

GeneratedUsername(us) == Uuid4[Len(us) + 1]

\* mutant: social_user.set_unusable_password() is left out
setup_generate_no_password(c, rq) ==
    LET us1 == Append(c.users, NewUser(GeneratedUsername(c.users), EmptyPassword))
        saved == [c.sess.sr_profile EXCEPT !.target = UserTarget(Len(us1))]
        c1 == [users |-> us1, profiles |-> Append(c.profiles, saved),
               sess |-> [c.sess EXCEPT !.sr_profile = saved]]
    IN  _authenticate_login_redirect(c1, rq)

setup_generate(c, rq) ==
    LET us1 == Append(c.users, NewUser(GeneratedUsername(c.users), EmptyPassword))
        us2 == [us1 EXCEPT ![Len(us1)].password = UnusablePassword]
        saved == [c.sess.sr_profile EXCEPT !.target = UserTarget(Len(us1))]
        c1 == [users |-> us2, profiles |-> Append(c.profiles, saved),
               sess |-> [c.sess EXCEPT !.sr_profile = saved]]
    IN  _authenticate_login_redirect(c1, rq)

\* mutant: the pending registration is not looked for in the session
setup_unguarded(c, generate, method, post, rq) ==
    IF Len(existing_profiles(c)) > 0 THEN Handled(c, setup_existing(c, rq))
    ELSE IF ~generate THEN Handled(c, setup_form(c, method, post, rq))
    ELSE Handled(c, setup_generate(c, rq))

setup(c, generate, method, post, rq) ==
    IF ~c.sess.sr_user \/ c.sess.sr_profile = NoProfile
    THEN Ret(c, c.sess, Render("setup.html", {"error"}))
    ELSE IF Len(existing_profiles(c)) > 0 THEN Handled(c, setup_existing(c, rq))
    ELSE IF ~generate THEN Handled(c, setup_form(c, method, post, rq))
    ELSE Handled(c, setup_generate(c, rq))

\* the unmatched branch of a login callback: the pending registration
Pending(s, profile) == [s EXCEPT !.sr_user = TRUE, !.sr_profile = profile]

facebook_login(c, uid, rq) ==
    IF uid = None
    THEN Ret(c, c.sess, Render("facebook.html", {"error"}))
    ELSE LET user == authenticate(c.profiles, "facebook", uid) IN
         IF user = Anonymous
         THEN LET n == _get_next(Pending(c.sess, Profile("facebook", uid, Unsaved, NoCred, NoCred)), rq)
              IN  Ret(c, [n.sess EXCEPT !.next = n.url], Redirect(SETUP_URL))
         ELSE IF ~c.users[user].is_active
         THEN Ret(c, c.sess, Render("account_inactive.html", {}))
         ELSE LET n == _get_next(login(c.sess, user), rq)
              IN  Ret(c, n.sess, Redirect(n.url))

\* profile.consumer_key is a field and is saved; profile.secret is not a field
FacebookUpdate(p, token) == [p EXCEPT !.key = token]

\* try: get(...), update, save / except DoesNotExist: create(...)
FacebookGetOrCreate(ps, q, created) ==
    IF Len(Matching(ps, q)) = 0 THEN Append(ps, created)
    ELSE [ps EXCEPT ![Index(ps, q)] = FacebookUpdate(@, created.key)]

\* 'a' and 'm' in info  is  'm' in info; the object named is one that exists
get_object(info) == IF info.m = Absent THEN NoneObj ELSE <<info.m, info.i>>

\* the last two lines of facebook_connect: _get_next for the log, then for the redirect
facebook_connected(c, ps, rq) ==
    LET n1 == _get_next(c.sess, rq)
        n2 == _get_next(n1.sess, rq)
    IN  RetStore(c.users, ps, n2.sess, Redirect(n2.url))

facebook_connect_object(c, connect_object, uid, token, rq) ==
    LET q == Filter("facebook", {"remote_id", "content_type", "object_id"}, uid, connect_object) IN
    IF Get(c.profiles, q) = "MultipleObjectsReturned"
    THEN Ret(c, c.sess, Raise("MultipleObjectsReturned"))
    ELSE IF uid = None /\ Get(c.profiles, q) = "DoesNotExist"
    THEN Ret(c, c.sess, Raise("IntegrityError"))
    ELSE facebook_connected(c, FacebookGetOrCreate(c.profiles, q,
                                   Profile("facebook", uid, connect_object, token, token)), rq)

facebook_connect_user(c, uid, token, rq) ==
    LET q == Filter("facebook", {"remote_id", "content_type"}, uid, UserTarget(0)) IN
    IF uid = None \/ c.sess.user = Anonymous
    THEN Ret(c, c.sess, Render("facebook.html", {"error"}))
    ELSE IF Get(c.profiles, q) = "MultipleObjectsReturned"
    THEN Ret(c, c.sess, Raise("MultipleObjectsReturned"))
    ELSE facebook_connected(c, FacebookGetOrCreate(c.profiles, q,
                                   Profile("facebook", uid, UserTarget(c.sess.user), token, token)), rq)

facebook_declined(c, rq) ==
    IF rq.referer # Absent
    THEN Ret(c, c.sess, Notice(rq.referer))
    ELSE LET n == _get_next(c.sess, rq) IN Ret(c, n.sess, Notice(n.url))

facebook_connect(c, authorized, uid, token, info, rq) ==
    IF ~authorized THEN facebook_declined(c, rq)
    ELSE IF get_object(info) # NoneObj
    THEN facebook_connect_object(c, get_object(info), uid, token, rq)
    ELSE facebook_connect_user(c, uid, token, rq)

\* mutant: logging out forgets the oldest profile
logout_forget(c) ==
    RetStore(c.users,
             IF Len(c.profiles) > 0 THEN Remove(c.profiles, 1) ELSE c.profiles,
             NewSession, Redirect(LOGOUT_REDIRECT_URL))

\* django.contrib.auth.logout flushes the session
logout(c) == Ret(c, NewSession, Redirect(LOGOUT_REDIRECT_URL))

\* try: get(...) / except DoesNotExist: create(...)   (the row found is not changed)
GetOrCreate(ps, q, created) ==
    IF Len(Matching(ps, q)) = 0 THEN Append(ps, created) ELSE ps

Carried(s) == s.cobj # AbsentObj /\ s.cobj # NoneObj

twitter_connect_object(c, id, token, rq) ==
    LET obj == c.sess.cobj
        q == Filter("twitter", {"remote_id", "content_type", "object_id"}, id, obj)
    IN  IF Get(c.profiles, q) = "MultipleObjectsReturned"
        THEN Ret(c, c.sess, Raise("MultipleObjectsReturned"))
        ELSE LET n == _get_next([c.sess EXCEPT !.cobj = AbsentObj], rq)
             IN  RetStore(c.users,
                          GetOrCreate(c.profiles, q, Profile("twitter", id, obj, token, token)),
                          n.sess, Redirect(n.url))

\* mutant: the profile is looked up for request.user, not for any user
twitter_connect_user_own(c, id, token, rq) ==
    LET q == Filter("twitter", {"remote_id", "content_type", "object_id"}, id,
                   UserTarget(c.sess.user)) IN
    IF Get(c.profiles, q) = "MultipleObjectsReturned"
    THEN Ret(c, c.sess, Raise("MultipleObjectsReturned"))
    ELSE LET n1 == _get_next(c.sess, rq)
             n2 == _get_next(n1.sess, rq)
         IN  RetStore(c.users,
                      GetOrCreate(c.profiles, q,
                                  Profile("twitter", id, UserTarget(c.sess.user), token, token)),
                      n2.sess, Redirect(n2.url))

twitter_connect_user(c, id, token, rq) ==
    LET q == Filter("twitter", {"remote_id", "content_type"}, id, UserTarget(0)) IN
    IF Get(c.profiles, q) = "MultipleObjectsReturned"
    THEN Ret(c, c.sess, Raise("MultipleObjectsReturned"))
    ELSE LET n1 == _get_next(c.sess, rq)
             n2 == _get_next(n1.sess, rq)
         IN  RetStore(c.users,
                      GetOrCreate(c.profiles, q,
                                  Profile("twitter", id, UserTarget(c.sess.user), token, token)),
                      n2.sess, Redirect(n2.url))

\* mutant: the matched user is redirected without login(request, user)
twitter_login_no_login(c, id, token, rq) ==
    LET user == authenticate(c.profiles, "twitter", id) IN
    IF user = Anonymous
    THEN LET n == _get_next(Pending(c.sess, Profile("twitter", id, Unsaved, token, token)), rq)
         IN  Ret(c, [n.sess EXCEPT !.next = n.url], Redirect(SETUP_URL))
    ELSE IF ~c.users[user].is_active
    THEN Ret(c, c.sess, Render("account_inactive.html", {}))
    ELSE LET n == _get_next(c.sess, rq)
         IN  Ret(c, n.sess, Redirect(n.url))

twitter_login(c, id, token, rq) ==
    LET user == authenticate(c.profiles, "twitter", id) IN
    IF user = Anonymous
    THEN LET n == _get_next(Pending(c.sess, Profile("twitter", id, Unsaved, token, token)), rq)
         IN  Ret(c, [n.sess EXCEPT !.next = n.url], Redirect(SETUP_URL))
    ELSE IF ~c.users[user].is_active
    THEN Ret(c, c.sess, Render("account_inactive.html", {}))
    ELSE LET n == _get_next(login(c.sess, user), rq)
         IN  Ret(c, n.sess, Redirect(n.url))

\* mutant: the logged-in user is looked at before the carried connect object
twitter_user_first(c, id, token, rq) ==
    IF c.sess.user # Anonymous THEN twitter_connect_user(c, id, token, rq)
    ELSE IF Carried(c.sess) THEN twitter_connect_object(c, id, token, rq)
    ELSE twitter_login(c, id, token, rq)

\* user_info['id'] raises KeyError when the user info has no id
twitter(c, id, token, rq) ==
    IF id = Absent THEN Ret(c, c.sess, Raise("KeyError"))
    ELSE IF Carried(c.sess) THEN twitter_connect_object(c, id, token, rq)
    ELSE IF c.sess.user # Anonymous THEN twitter_connect_user(c, id, token, rq)
    ELSE twitter_login(c, id, token, rq)

oauth_redirect(c, info, rq) ==
    LET n == _get_next([c.sess EXCEPT !.cobj = get_object(info)], rq)
    IN  Ret(c, [n.sess EXCEPT !.next = n.url], Redirect(PROVIDER_URL))

CALLBACK_URL == "/twitter/"

\* the user has denied us: a message, and back to where they came from
oauth_denied(c, rq) ==
    IF rq.referer # Absent
    THEN Ret(c, c.sess, Notice(rq.referer))
    ELSE LET n == _get_next(c.sess, rq) IN Ret(c, n.sess, Notice(n.url))

\* mutant: the denied request ends the session
oauth_callback_flush(c, denied, valid, rq) ==
    IF denied THEN Ret(c, NewSession, oauth_denied(c, rq).resp)
    ELSE IF ~valid THEN Ret(c, c.sess, Render("oauthcallback.html", {"oauth_client"}))
    ELSE Ret(c, c.sess, Redirect(CALLBACK_URL))

oauth_callback(c, denied, valid, rq) ==
    IF denied THEN oauth_denied(c, rq)
    ELSE IF ~valid THEN Ret(c, c.sess, Render("oauthcallback.html", {"oauth_client"}))
    ELSE Ret(c, c.sess, Redirect(CALLBACK_URL))

openid_redirect(c, info, discovered, rq) ==
    LET n == _get_next(c.sess, rq)
        s1 == [n.sess EXCEPT !.next = n.url, !.cobj = get_object(info)]
    IN  IF discovered
        THEN Ret(c, s1, Redirect(PROVIDER_URL))
        ELSE Ret(c, [s1 EXCEPT !.openid_error = TRUE], Redirect(LOGIN_URL))

openid_connect_object(c, identity, rq) ==
    LET obj == c.sess.cobj
        q == Filter("openid", {"remote_id", "content_type", "object_id"}, identity, obj)
    IN  IF Get(c.profiles, q) = "MultipleObjectsReturned"
        THEN Ret(c, c.sess, Raise("MultipleObjectsReturned"))
        ELSE LET n == _get_next([c.sess EXCEPT !.cobj = AbsentObj], rq)
             IN  RetStore(c.users,
                          GetOrCreate(c.profiles, q, Profile("openid", identity, obj, NoCred, NoCred)),
                          n.sess, Redirect(n.url))

\* mutant: the profile is created without being looked up
openid_connect_user_always(c, identity, rq) ==
    LET n1 == _get_next(c.sess, rq)
        n2 == _get_next(n1.sess, rq)
    IN  RetStore(c.users,
                 Append(c.profiles,
                        Profile("openid", identity, UserTarget(c.sess.user), NoCred, NoCred)),
                 n2.sess, Redirect(n2.url))

openid_connect_user(c, identity, rq) ==
    LET q == Filter("openid", {"remote_id", "content_type"}, identity, UserTarget(0)) IN
    IF Get(c.profiles, q) = "MultipleObjectsReturned"
    THEN Ret(c, c.sess, Raise("MultipleObjectsReturned"))
    ELSE LET n1 == _get_next(c.sess, rq)
             n2 == _get_next(n1.sess, rq)
         IN  RetStore(c.users,
                      GetOrCreate(c.profiles, q,
                                  Profile("openid", identity, UserTarget(c.sess.user), NoCred, NoCred)),
                      n2.sess, Redirect(n2.url))

openid_login(c, identity, rq) ==
    LET user == authenticate(c.profiles, "openid", identity) IN
    IF user = Anonymous
    THEN Ret(c, Pending(c.sess, Profile("openid", identity, Unsaved, NoCred, NoCred)),
             Redirect(SETUP_URL))
    ELSE IF ~c.users[user].is_active
    THEN Ret(c, c.sess, Render("account_inactive.html", {}))
    ELSE LET n1 == _get_next(login(c.sess, user), rq)
             n2 == _get_next(n1.sess, rq)
         IN  Ret(c, n2.sess, Redirect(n2.url))

openid_callback(c, valid, identity, rq) ==
    IF ~valid THEN Ret(c, c.sess, Render("openid.html", {}))
    ELSE IF Carried(c.sess) THEN openid_connect_object(c, identity, rq)
    ELSE IF c.sess.user # Anonymous THEN openid_connect_user(c, identity, rq)
    ELSE openid_login(c, identity, rq)

----------------------------------------------------------------------------
(* Requests: one action per view.  U names the sets the inputs of the     *)
(* requests are drawn from: U.S sessions, U.R remote ids, U.T tokens,     *)
(* U.Q query strings naming a connect object, U.N request parameters.     *)
(* A site switches on one provider (its urls and its auth backend); the   *)
(* three providers keep their profiles in separate tables.                *)

NoQuery == [a |-> Absent, m |-> Absent, i |-> 0]
ArticleQuery == [a |-> "news", m |-> ArticleType, i |-> 1]

PlainRequest == [get_next |-> Absent, post_next |-> Absent, referer |-> Absent]

Posts ==
    [username : FormUsernames, password : FormPasswords, submitted : BOOLEAN]

NoPost == [username |-> Absent, password |-> Absent, submitted |-> FALSE]

Ctx(s) == [users |-> users, profiles |-> profiles, sess |-> session[s]]

Within(r) == Len(r.users) <= MaxUsers /\ Len(r.profiles) <= MaxProfiles

Commit(op, s, r) ==
    /\ Within(r)
    /\ users' = r.users
    /\ profiles' = r.profiles
    /\ session' = [session EXCEPT ![s] = r.sess]
    /\ last' = [op |-> op, s |-> s, resp |-> r.resp]
    /\ UNCHANGED <<GENERATE_USERNAME, enabled, inflight, extra_context>>

Targets == {UserTarget(i) : i \in 1..Len(users)} \cup DomainObjects

DisconnectStep(s, method, target) ==
    Commit("disconnect", s, disconnect(Ctx(s), method, enabled, target))

SetupStep(s, method, post, rq) ==
    Commit("setup", s, setup(Ctx(s), GENERATE_USERNAME, method, post, rq))

FacebookLoginStep(s, uid, rq) ==
    /\ enabled = "facebook"
    /\ Commit("facebook_login", s, facebook_login(Ctx(s), uid, rq))

FacebookConnectStep(s, authorized, uid, token, info, rq) ==
    /\ enabled = "facebook"
    /\ Commit("facebook_connect", s, facebook_connect(Ctx(s), authorized, uid, token, info, rq))

LogoutStep(s) == Commit("logout", s, logout(Ctx(s)))

TwitterStep(s, id, token, rq) ==
    /\ enabled = "twitter"
    /\ Commit("twitter", s, twitter(Ctx(s), id, token, rq))

OauthRedirectStep(s, info, rq) ==
    /\ enabled = "twitter"
    /\ Commit("oauth_redirect", s, oauth_redirect(Ctx(s), info, rq))

OauthCallbackStep(s, denied, valid, rq) ==
    /\ enabled = "twitter"
    /\ Commit("oauth_callback", s, oauth_callback(Ctx(s), denied, valid, rq))

OpenidRedirectStep(s, info, rq) ==
    /\ enabled = "openid"
    /\ Commit("openid_redirect", s, openid_redirect(Ctx(s), info, TRUE, rq))

OpenidCallbackStep(s, valid, identity, rq) ==
    /\ enabled = "openid"
    /\ Commit("openid_callback", s, openid_callback(Ctx(s), valid, identity, rq))

Disconnect(U) ==
    \E s \in U.S, method \in {"GET", "POST"}, target \in Targets :
        DisconnectStep(s, method, target)

SetupGet(U) == \E s \in U.S, rq \in U.N : SetupStep(s, "GET", NoPost, rq)

SetupPost(U) == \E s \in U.S, rq \in U.N, post \in Posts : SetupStep(s, "POST", post, rq)

FacebookLogin(U) ==
    \E s \in U.S, uid \in U.R \cup {None}, rq \in U.N : FacebookLoginStep(s, uid, rq)

\* a session that facebook has not authorized has no uid and no token
FacebookConnect(U) ==
    \E s \in U.S, info \in U.Q, rq \in U.N :
        \/ FacebookConnectStep(s, FALSE, None, NoCred, info, rq)
        \/ \E uid \in U.R \cup {None}, token \in U.T :
              FacebookConnectStep(s, TRUE, uid, token, info, rq)

Logout(U) == \E s \in U.S : LogoutStep(s)

Twitter(U) == \E s \in U.S, id \in U.R, token \in U.T, rq \in U.N : TwitterStep(s, id, token, rq)

OauthRedirect(U) == \E s \in U.S, info \in U.Q, rq \in U.N : OauthRedirectStep(s, info, rq)

Referer == "/page/"

\* request.META['HTTP_REFERER'] is there or not
OauthCallback(U) ==
    \E s \in U.S, rq \in U.N, referer \in {Absent, Referer}, denied \in BOOLEAN, valid \in BOOLEAN :
        OauthCallbackStep(s, denied, valid, [rq EXCEPT !.referer = referer])

OpenidRedirect(U) == \E s \in U.S, info \in U.Q, rq \in U.N : OpenidRedirectStep(s, info, rq)

\* a response that does not validate has no identity
OpenidCallback(U) ==
    \E s \in U.S, rq \in U.N :
        \/ OpenidCallbackStep(s, FALSE, None, rq)
        \/ \E identity \in U.R : OpenidCallbackStep(s, TRUE, identity, rq)

Bob(active) == [username |-> "bob", password |-> "pw", is_active |-> active]

Workers == 1..MaxRequests

\* the views that write to their default extra_context=dict()
DefaultDicts == {"setup", "facebook_login", "facebook_connect"}

\* a worker that handles no request
Idle ==
    [pc |-> "idle", s |-> None, sess |-> NewSession, path |-> None,
     post |-> NoPost, row |-> NoProfile, resp |-> Redirect("/")]

Init ==
    /\ users = <<Bob(TRUE)>>
    /\ profiles = <<>>
    /\ session = [s \in Sessions |-> NewSession]
    /\ GENERATE_USERNAME \in BOOLEAN
    /\ enabled \in Providers
    /\ last = [op |-> "init", s |-> None, resp |-> Redirect("/")]
    /\ inflight = [w \in Workers |-> Idle]
    /\ extra_context = [view \in DefaultDicts |-> {}]

\* one browser, two identities, one token
Main ==
    [S |-> {"s1"}, R |-> Rids, T |-> {"t1"}, Q |-> {NoQuery, ArticleQuery},
     N |-> {PlainRequest}]

Next ==
    \/ Disconnect(Main)
    \/ SetupGet(Main)
    \/ SetupPost(Main)
    \/ FacebookLogin(Main)
    \/ FacebookConnect(Main)
    \/ Logout(Main)
    \/ Twitter(Main)
    \/ OauthRedirect(Main)
    \/ OpenidRedirect(Main)
    \/ OpenidCallback(Main)

Spec == Init /\ [][Next]_vars

\* one browser, one identity, two tokens: credentials that change between calls
Refresh ==
    [S |-> {"s1"}, R |-> {"r1"}, T |-> Tokens, Q |-> {NoQuery, ArticleQuery},
     N |-> {PlainRequest}]

NextRefresh ==
    \/ Disconnect(Refresh)
    \/ SetupGet(Refresh)
    \/ SetupPost(Refresh)
    \/ FacebookLogin(Refresh)
    \/ FacebookConnect(Refresh)
    \/ Logout(Refresh)
    \/ Twitter(Refresh)
    \/ OauthRedirect(Refresh)
    \/ OpenidRedirect(Refresh)
    \/ OpenidCallback(Refresh)

SpecRefresh == Init /\ [][NextRefresh]_vars

\* the site's own views store a disconnect url in the session:
\* request.session['SOCIALREGISTRATION_DISCONNECT_URL'] = url
SiteDisconnectUrl == "/bye/"

StoreDisconnectUrl(U) ==
    \E s \in U.S :
        /\ session[s].disconnect_url = Absent
        /\ session' = [session EXCEPT ![s].disconnect_url = SiteDisconnectUrl]
        /\ last' = [op |-> "site", s |-> s, resp |-> Redirect("/")]
        /\ UNCHANGED <<users, profiles, GENERATE_USERNAME, enabled, inflight, extra_context>>

\* one browser, one identity, one token, and a site that stores the override
Override ==
    [S |-> {"s1"}, R |-> {"r1"}, T |-> {"t1"}, Q |-> {NoQuery, ArticleQuery},
     N |-> {PlainRequest}]

NextOverride ==
    \/ Disconnect(Override)
    \/ SetupGet(Override)
    \/ SetupPost(Override)
    \/ FacebookLogin(Override)
    \/ FacebookConnect(Override)
    \/ Logout(Override)
    \/ Twitter(Override)
    \/ OauthRedirect(Override)
    \/ OpenidRedirect(Override)
    \/ OpenidCallback(Override)
    \/ StoreDisconnectUrl(Override)

SpecOverride == Init /\ [][NextOverride]_vars

----------------------------------------------------------------------------
(* Requests handled at the same time.  A worker handles one request in    *)
(* two steps: the step that reads the session and makes the lookups, and   *)
(* the step that makes the saves the lookups led to.  A request that       *)
(* saves nothing is one step.  Every worker has its own copy of the        *)
(* session, read when its request begins and saved with its response.      *)

\* the branch of setup the reads of a request select
SetupPath(c, generate, method, post) ==
    IF ~c.sess.sr_user \/ c.sess.sr_profile = NoProfile THEN "error"
    ELSE IF Len(existing_profiles(c)) > 0 THEN "existing"
    ELSE IF generate THEN "generate"
    ELSE IF method # "POST" THEN "render"
    ELSE IF UserForm(c.users, post) = "valid" THEN "create"
    ELSE IF UserForm(c.users, post) = "ExistingUser" /\ ClaimForm(c.users, post, post.submitted)
    THEN "claim"
    ELSE "render"

\* the saves of the branch, made on the store as it is when they are made;
\* auth.User.username is unique: saving a second account of a name fails
SetupWrites(c, path, post, rq) ==
    CASE path = "existing" -> setup_existing(c, rq)
      [] path = "generate" -> setup_generate(c, rq)
      [] path = "claim" -> setup_claim(c, post, rq)
      [] path = "create" ->
            IF post.username \in Usernames(c.users)
            THEN Ret(c, c.sess, Raise("IntegrityError"))
            ELSE setup_create(c, post, rq)

\* the response is sent: the store is as the request left it, and the
\* session is saved when the request changed its copy and did not raise
Finish(op, w, s, read, r) ==
    /\ Within(r)
    /\ users' = r.users
    /\ profiles' = r.profiles
    /\ session' = IF r.resp.kind = "error" \/ r.sess = read
                  THEN session
                  ELSE [session EXCEPT ![s] = r.sess]
    /\ last' = [op |-> op, s |-> s, resp |-> r.resp]
    /\ inflight' = [inflight EXCEPT ![w] = Idle]
    /\ UNCHANGED <<GENERATE_USERNAME, enabled, extra_context>>

Hold(w, f) ==
    /\ inflight' = [inflight EXCEPT ![w] = f]
    /\ UNCHANGED <<users, profiles, session, GENERATE_USERNAME, enabled, last, extra_context>>

SetupBegin(U) ==
    \E w \in Workers, s \in U.S, rq \in U.N, method \in {"GET", "POST"}, post \in Posts :
        /\ inflight[w].pc = "idle"
        /\ LET path == SetupPath(Ctx(s), GENERATE_USERNAME, method, post) IN
           IF path \in {"error", "render"}
           THEN Finish("setup", w, s, session[s],
                       setup(Ctx(s), GENERATE_USERNAME, method, post, rq))
           ELSE Hold(w, [Idle EXCEPT !.pc = "setup", !.s = s, !.sess = session[s],
                                     !.path = path, !.post = post])

SetupSave(U) ==
    \E w \in Workers, rq \in U.N :
        /\ inflight[w].pc = "setup"
        /\ LET f == inflight[w]
               c == [users |-> users, profiles |-> profiles, sess |-> f.sess]
           IN  Finish("setup", w, f.s, f.sess, Handled(c, SetupWrites(c, f.path, f.post, rq)))

\* the callback views of the provider switched on
Callbacks(c, rid, token, info, rq) ==
    CASE enabled = "facebook" ->
            {facebook_login(c, rid, rq), facebook_connect(c, TRUE, rid, token, info, rq)}
      [] enabled = "twitter" -> {twitter(c, rid, token, rq)}
      [] enabled = "openid" -> {openid_callback(c, TRUE, rid, rq)}

\* get(...) found the profile, or the view makes no lookup: the request is
\* one step.  get(...) raised DoesNotExist: create(...) is the next step.
CallbackBegin(U) ==
    \E w \in Workers, s \in U.S, rid \in U.R, token \in U.T, info \in U.Q, rq \in U.N :
        /\ inflight[w].pc = "idle"
        /\ \E r \in Callbacks(Ctx(s), rid, token, info, rq) :
              IF Len(r.profiles) = Len(profiles)
              THEN Finish("callback", w, s, session[s], r)
              ELSE Hold(w, [Idle EXCEPT !.pc = "create", !.s = s, !.sess = r.sess,
                                        !.row = r.profiles[Len(r.profiles)],
                                        !.resp = r.resp])

\* objects.create(...) of the request f, and the rest of its view
create(c, f) == RetStore(c.users, Append(c.profiles, f.row), f.sess, f.resp)

CallbackCreate(U) ==
    \E w \in Workers :
        /\ inflight[w].pc = "create"
        /\ inflight[w].s \in U.S
        /\ Finish("callback", w, inflight[w].s, session[inflight[w].s],
                  create(Ctx(inflight[w].s), inflight[w]))

\* a site without accounts
InitRace ==
    /\ users = <<>>
    /\ profiles = <<>>
    /\ session = [s \in Sessions |-> NewSession]
    /\ GENERATE_USERNAME \in BOOLEAN
    /\ enabled \in Providers
    /\ last = [op |-> "init", s |-> None, resp |-> Redirect("/")]
    /\ inflight = [w \in Workers |-> Idle]
    /\ extra_context = [view \in DefaultDicts |-> {}]

\* one browser, one identity, one token
Race ==
    [S |-> {"s1"}, R |-> {"r1"}, T |-> {"t1"}, Q |-> {NoQuery, ArticleQuery},
     N |-> {PlainRequest}]

NextRace ==
    \/ OauthRedirect(Race)
    \/ OpenidRedirect(Race)
    \/ SetupBegin(Race)
    \/ SetupSave(Race)
    \/ CallbackBegin(Race)
    \/ CallbackCreate(Race)

SpecRace == InitRace /\ [][NextRace]_vars

----------------------------------------------------------------------------
(* The profile tables with the uniqueness constraint of the               *)
(* specification: one profile per (provider, remote id, target type).     *)

\* PersistProfile(row) would answer ConstraintViolation
DuplicateLink(ps, row) ==
    \E i \in 1..Len(ps) :
        /\ ps[i].provider = row.provider
        /\ ps[i].rid = row.rid
        /\ ps[i].target[1] = row.target[1]

\* objects.create(...) on such a table: the views catch DoesNotExist
\* around get(...) and nothing around create(...)
create_unique(c, f) ==
    IF DuplicateLink(c.profiles, f.row)
    THEN Ret(c, c.sess, Raise("IntegrityError"))
    ELSE create(c, f)

CallbackCreateUnique(U) ==
    \E w \in Workers :
        /\ inflight[w].pc = "create"
        /\ inflight[w].s \in U.S
        /\ Finish("callback", w, inflight[w].s, session[inflight[w].s],
                  create_unique(Ctx(inflight[w].s), inflight[w]))

NextUnique ==
    \/ OauthRedirect(Race)
    \/ OpenidRedirect(Race)
    \/ Logout(Race)
    \/ CallbackBegin(Race)
    \/ CallbackCreateUnique(Race)

SpecUnique == Init /\ [][NextUnique]_vars

----------------------------------------------------------------------------
(* A storage layer that can fail a save.                                   *)

\* setup's generate branch when social_profile.save() raises: the two
\* saves of the account before it are committed, nothing is rolled back
setup_generate_fault(c, rq) ==
    LET us1 == Append(c.users, NewUser(GeneratedUsername(c.users), EmptyPassword))
        us2 == [us1 EXCEPT ![Len(us1)].password = UnusablePassword]
    IN  RetStore(us2, c.profiles, c.sess, Raise("DatabaseError"))

SetupFault(U) ==
    \E s \in U.S, rq \in U.N :
        /\ SetupPath(Ctx(s), GENERATE_USERNAME, "GET", NoPost) = "generate"
        /\ Commit("setup", s, Handled(Ctx(s), setup_generate_fault(Ctx(s), rq)))

NextFault ==
    \/ Disconnect(Race)
    \/ SetupGet(Race)
    \/ SetupPost(Race)
    \/ FacebookLogin(Race)
    \/ FacebookConnect(Race)
    \/ Logout(Race)
    \/ Twitter(Race)
    \/ OauthRedirect(Race)
    \/ OpenidRedirect(Race)
    \/ OpenidCallback(Race)
    \/ SetupFault(Race)

SpecFault == Init /\ [][NextFault]_vars

----------------------------------------------------------------------------
(* A site whose one password account has been deactivated (is_active is    *)
(* cleared outside these views, which create every account active).        *)

InitInactive ==
    /\ users = <<Bob(FALSE)>>
    /\ profiles = <<>>
    /\ session = [s \in Sessions |-> NewSession]
    /\ GENERATE_USERNAME \in BOOLEAN
    /\ enabled \in Providers
    /\ last = [op |-> "init", s |-> None, resp |-> Redirect("/")]
    /\ inflight = [w \in Workers |-> Idle]
    /\ extra_context = [view \in DefaultDicts |-> {}]

SpecInactive == InitInactive /\ [][Next]_vars

----------------------------------------------------------------------------
(* Requests that name the page to go to afterwards: ?next=/n/ on the       *)
(* request that starts the flow; the provider calls back without it.       *)

NextUrl == "/n/"

NextRequest == [PlainRequest EXCEPT !.get_next = NextUrl]

\* one browser, one identity, one token, with and without ?next=
Carry ==
    [S |-> {"s1"}, R |-> {"r1"}, T |-> {"t1"}, Q |-> {NoQuery},
     N |-> {PlainRequest, NextRequest}]

NextCarry ==
    \/ SetupGet(Carry)
    \/ SetupPost(Carry)
    \/ FacebookLogin(Carry)
    \/ FacebookConnect(Carry)
    \/ Logout(Carry)
    \/ Twitter(Carry)
    \/ OauthRedirect(Carry)
    \/ OpenidRedirect(Carry)
    \/ OpenidCallback(Carry)

SpecCarry == Init /\ [][NextCarry]_vars

\* the same requests, and the callback of the OAuth provider
NextDenied ==
    \/ NextCarry
    \/ OauthCallback(Carry)

SpecDenied == Init /\ [][NextDenied]_vars

----------------------------------------------------------------------------
(* One server process.  extra_context=dict() in a def is one dict for all  *)
(* the calls that do not pass the argument: what a request writes to it    *)
(* is in the context of the renders of the requests after it.  The runs    *)
(* above take every render with the keys its own request sets.             *)

\* the response resp of the view is a render of its extra_context
UsesDefaultDict(view, resp) ==
    /\ resp.kind = "render"
    /\ CASE view = "setup" -> "form" \in resp.ctx
         [] view = "facebook_login" -> TRUE
         [] view = "facebook_connect" -> TRUE
         [] OTHER -> FALSE

\* the response as the process gives it: the keys the request has set,
\* and the keys the requests before it have left in the dict
Rendered(view, resp) ==
    IF UsesDefaultDict(view, resp)
    THEN [resp EXCEPT !.ctx = @ \cup extra_context[view]]
    ELSE resp

ProcessCommit(view, s, r) ==
    /\ Within(r)
    /\ users' = r.users
    /\ profiles' = r.profiles
    /\ session' = [session EXCEPT ![s] = r.sess]
    /\ last' = [op |-> view, s |-> s, resp |-> Rendered(view, r.resp)]
    /\ extra_context' =
          IF UsesDefaultDict(view, r.resp)
          THEN [extra_context EXCEPT ![view] = (@ \cup r.resp.ctx) \ {"form"}]
          ELSE extra_context
    /\ UNCHANGED <<GENERATE_USERNAME, enabled, inflight>>

ProcessSetup(U) ==
    \E s \in U.S, rq \in U.N :
        \/ ProcessCommit("setup", s, setup(Ctx(s), GENERATE_USERNAME, "GET", NoPost, rq))
        \/ \E post \in Posts :
              ProcessCommit("setup", s, setup(Ctx(s), GENERATE_USERNAME, "POST", post, rq))

ProcessFacebookLogin(U) ==
    \E s \in U.S, uid \in U.R \cup {None}, rq \in U.N :
        /\ enabled = "facebook"
        /\ ProcessCommit("facebook_login", s, facebook_login(Ctx(s), uid, rq))

ProcessFacebookConnect(U) ==
    \E s \in U.S, uid \in U.R \cup {None}, token \in U.T, info \in U.Q, rq \in U.N :
        /\ enabled = "facebook"
        /\ ProcessCommit("facebook_connect", s,
                         facebook_connect(Ctx(s), TRUE, uid, token, info, rq))

\* one browser, two identities, one token, no connect object
Process ==
    [S |-> {"s1"}, R |-> Rids, T |-> {"t1"}, Q |-> {NoQuery}, N |-> {PlainRequest}]

NextProcess ==
    \/ ProcessSetup(Process)
    \/ ProcessFacebookLogin(Process)
    \/ ProcessFacebookConnect(Process)
    \/ Logout(Process)
    \/ Twitter(Process)
    \/ OpenidCallback(Process)

SpecProcess == Init /\ [][NextProcess]_vars

----------------------------------------------------------------------------
(* One server process and two browsers.  Session s1 makes only requests    *)
(* that write no key to a default dict (callbacks with an identity, GET of *)
(* setup); session s2 makes any request.  Whatever is in a default dict    *)
(* has been written by a request of s2.                                    *)

Observer ==
    [S |-> {"s1"}, R |-> {"r1"}, T |-> {"t1"}, Q |-> {NoQuery}, N |-> {PlainRequest}]

Others ==
    [S |-> {"s2"}, R |-> {"r2"}, T |-> {"t1"}, Q |-> {NoQuery}, N |-> {PlainRequest}]

ObserverSetup(U) ==
    \E s \in U.S, rq \in U.N :
        ProcessCommit("setup", s, setup(Ctx(s), GENERATE_USERNAME, "GET", NoPost, rq))

ObserverFacebookLogin(U) ==
    \E s \in U.S, uid \in U.R, rq \in U.N :
        /\ enabled = "facebook"
        /\ ProcessCommit("facebook_login", s, facebook_login(Ctx(s), uid, rq))

NextShared ==
    \/ ObserverSetup(Observer)
    \/ ObserverFacebookLogin(Observer)
    \/ Twitter(Observer)
    \/ OpenidCallback(Observer)
    \/ ProcessSetup(Others)
    \/ ProcessFacebookLogin(Others)
    \/ ProcessFacebookConnect(Others)
    \/ Logout(Others)
    \/ Twitter(Others)
    \/ OpenidCallback(Others)

SpecShared == Init /\ [][NextShared]_vars

----------------------------------------------------------------------------
(* Properties *)

Rows(ps) == 1..Len(ps)

SameIdentity(p, q) == p.provider = q.provider /\ p.rid = q.rid

\* the accounts the identity (enabled provider, rid) is bound to
BoundUsers(rid) ==
    {profiles[i].target[2] :
        i \in {j \in Rows(profiles) : /\ profiles[j].provider = enabled
                                      /\ profiles[j].rid = rid
                                      /\ IsUserProfile(profiles[j])}}

HasPending(s) == session[s].sr_user /\ session[s].sr_profile # NoProfile

\* no saved profile has the identity of the pending profile of session s
PendingUnlinked(s) ==
    \A i \in Rows(profiles) : ~SameIdentity(profiles[i], session[s].sr_profile)

LoginOps == {"facebook_login", "twitter", "openid_callback"}

ConnectOps == {"facebook_connect", "twitter"}

CallbackOps == {"twitter", "openid_callback", "facebook_connect"}

\* the step is a request of session s to one of the views ops
Did(ops, s) == last'.op \in ops /\ last'.s = s

\* what the login callback of the provider switched on returns to session s
\* for the verified identity rid
LoginCallbacks(s, rid) ==
    CASE enabled = "facebook" -> {facebook_login(Ctx(s), rid, PlainRequest)}
      [] enabled = "twitter" -> {twitter(Ctx(s), rid, token, PlainRequest) : token \in Main.T}
      [] enabled = "openid" -> {openid_callback(Ctx(s), TRUE, rid, PlainRequest)}

\* C1: a login callback for an identity bound to an active account, made by
\* an anonymous session that carries no connect object, logs that account
\* in and leaves the accounts and the profiles as they were.
C1_IdempotentLogin ==
    \A s \in Main.S, rid \in Rids, u \in 1..Len(users) :
        (/\ session[s].user = Anonymous
         /\ ~Carried(session[s])
         /\ u \in BoundUsers(rid)
         /\ users[u].is_active)
        => \A r \in LoginCallbacks(s, rid) :
              /\ r.users = users
              /\ r.profiles = profiles
              /\ r.sess.user = u
              /\ r.resp.kind = "redirect"

\* a login callback has logged in the account its identity is bound to
C1_Witness ==
    /\ last.op \in LoginOps
    /\ last.resp = Redirect(LOGIN_REDIRECT_URL)
    /\ session["s1"].user # Anonymous
    /\ \E rid \in Rids : session["s1"].user \in BoundUsers(rid)
    /\ users[session["s1"].user].is_active
    /\ ~Carried(session["s1"])
    /\ ~HasPending("s1")

ConnectUserStep(s, rid, token) ==
    \/ FacebookConnectStep(s, TRUE, rid, token, NoQuery, PlainRequest)
    \/ TwitterStep(s, rid, token, PlainRequest)

\* C2: when the logged-in user connects an identity that is already bound
\* to that user, the profile takes the credentials just received and no
\* profile is added.
C2_IdempotentConnect ==
    [][\A s \in Sessions :
        (/\ Did(ConnectOps, s)
         /\ session[s].user # Anonymous
         /\ ~Carried(session[s]))
        => \A rid \in Rids, token \in Tokens :
              (/\ session[s].user \in BoundUsers(rid)
               /\ ConnectUserStep(s, rid, token))
              => (/\ Len(profiles') = Len(profiles)
                  /\ \A i \in Rows(profiles) :
                        (/\ profiles[i].provider = enabled
                         /\ profiles[i].rid = rid
                         /\ profiles[i].target = UserTarget(session[s].user))
                        => (/\ profiles'[i].key = token
                            /\ profiles'[i].secret = token))]_vars

\* session s holds a pending registration of an identity that is not
\* linked, and username generation is off
ChoosesUsername(s) ==
    /\ ~GENERATE_USERNAME
    /\ HasPending(s)
    /\ PendingUnlinked(s)

\* what setup returns to session s for a posted form
SetupPosted(s, post) == setup(Ctx(s), GENERATE_USERNAME, "POST", post, PlainRequest)

\* C3: a username no account has, posted to setup with a pending
\* registration whose identity is not linked and username generation off,
\* adds one account of that name with the unusable password and one profile
\* bound to it, and logs the session in as that account.
C3_UsernameChoice ==
    \A s \in Main.S, post \in Posts :
        (/\ ChoosesUsername(s)
         /\ post.username \notin Usernames(users))
        => LET r == SetupPosted(s, post) IN
           /\ r.users = Append(users, NewUser(post.username, UnusablePassword))
           /\ r.profiles = Append(profiles,
                 [session[s].sr_profile EXCEPT !.target = UserTarget(Len(users) + 1)])
           /\ r.sess.user = Len(users) + 1
           /\ r.resp.kind = "redirect"

\* setup has created the account alice for the session and logged it in
C3_Witness ==
    /\ last.op = "setup"
    /\ last.resp.kind = "redirect"
    /\ ~GENERATE_USERNAME
    /\ Len(users) = 2
    /\ users[2] = NewUser("alice", UnusablePassword)
    /\ session["s1"].user = 2
    /\ \E i \in Rows(profiles) : profiles[i].target = UserTarget(2)

\* the posted username is the one of account a, which has a usable password
Claims(post, a) ==
    /\ users[a].username = post.username
    /\ has_usable_password(users[a])
    /\ post.submitted

\* C4: the claim form posted with the colliding account's own password
\* attaches the pending profile to that account, creates no account, leaves
\* its password, and logs the session in as that account.
C4_ClaimSuccess ==
    \A s \in Main.S, post \in Posts, a \in 1..Len(users) :
        (/\ ChoosesUsername(s)
         /\ Claims(post, a)
         /\ post.password = users[a].password)
        => LET r == SetupPosted(s, post) IN
           /\ r.users = users
           /\ r.profiles = Append(profiles,
                 [session[s].sr_profile EXCEPT !.target = UserTarget(a)])
           /\ r.sess.user = a
           /\ r.resp.kind = "redirect"

\* bob has claimed his account: a profile is bound to it, the password kept
C4_Witness ==
    /\ last.op = "setup"
    /\ last.resp.kind = "redirect"
    /\ session["s1"].user = 1
    /\ users[1].password = "pw"
    /\ Len(users) = 1
    /\ \E i \in Rows(profiles) : profiles[i].target = UserTarget(1)

\* C5: the claim form posted with a password that is not the colliding
\* account's changes no account, no profile and nothing in the session (no
\* login, the pending registration stays), and shows the claim form again.
C5_ClaimFailure ==
    \A s \in Main.S, post \in Posts, a \in 1..Len(users) :
        (/\ ChoosesUsername(s)
         /\ Claims(post, a)
         /\ post.password # users[a].password)
        => LET r == SetupPosted(s, post) IN
           /\ r.users = users
           /\ r.profiles = profiles
           /\ r.sess = session[s]
           /\ r.resp = Render("setup.html", {"form", "claim_account"})

\* the claim form was shown again to an anonymous session that keeps its
\* pending registration
C5_Witness ==
    /\ last.op = "setup"
    /\ last.resp = Render("setup.html", {"form", "claim_account"})
    /\ HasPending("s1")
    /\ session["s1"].user = Anonymous
    /\ profiles = <<>>

\* ps is profiles without its one row of (enabled provider, target)
Deleted(ps, target) ==
    \E i \in Rows(profiles) :
        /\ profiles[i].provider = enabled
        /\ profiles[i].target = target
        /\ ps = Remove(profiles, i)

\* C6 (as amended): a GET of disconnect deletes nothing and does not
\* redirect; disconnect changes the profiles only on a POST, and then
\* deletes the one profile the request names, whether or not the
\* confirmation was shown before.
C6_DisconnectOnPost ==
    \A s \in Main.S, method \in {"GET", "POST"}, target \in Targets :
        LET r == disconnect(Ctx(s), method, enabled, target) IN
        /\ method = "GET" => (r.profiles = profiles /\ r.resp.kind # "redirect")
        /\ r.profiles # profiles => (method = "POST" /\ Deleted(r.profiles, target))
        /\ r.users = users

\* C6 (as claimed): disconnect deletes a profile only when the request
\* before it was the one that rendered the confirmation.
C6_TwoPhase ==
    [][(last'.op = "disconnect" /\ Len(profiles') < Len(profiles))
        => (last.op = "disconnect" /\ last.resp.to = "confirm_disconnect.html")]_vars

\* a POST of disconnect has deleted the only profile
C6_Witness ==
    /\ last.op = "disconnect"
    /\ last.resp.kind = "redirect"
    /\ profiles = <<>>

UserRows(ps) == SelectSeq(ps, IsUserProfile)

\* what redirect-out returns to session s for the query string info
RedirectOuts(s, info) ==
    CASE enabled = "twitter" -> {oauth_redirect(Ctx(s), info, PlainRequest)}
      [] enabled = "openid" ->
            {openid_redirect(Ctx(s), info, discovered, PlainRequest) : discovered \in BOOLEAN}
      [] enabled = "facebook" -> {}

\* what callback-in returns to session s for identity rid when obj is the
\* connect object: carried in the session, or named in the query string
CallbackIns(s, rid, obj) ==
    CASE enabled = "twitter" ->
            IF session[s].cobj # obj THEN {}
            ELSE {twitter(Ctx(s), rid, token, PlainRequest) : token \in Main.T}
      [] enabled = "openid" ->
            IF session[s].cobj # obj THEN {}
            ELSE {openid_callback(Ctx(s), TRUE, rid, PlainRequest)}
      [] enabled = "facebook" ->
            IF get_object(ArticleQuery) # obj THEN {}
            ELSE {facebook_connect(Ctx(s), TRUE, rid, token, ArticleQuery, PlainRequest) :
                     token \in Main.T}

\* C7: the object named at redirect-out is kept in the session, and the
\* callback binds the profile to the object it is given, also for a
\* logged-in session: no profile is bound to a user by it and the
\* logged-in user stays.
C7_LinkTargetRoundTrip ==
    \A s \in Main.S :
        /\ \A info \in {NoQuery, ArticleQuery} :
              \A r \in RedirectOuts(s, info) : r.sess.cobj = get_object(info)
        /\ \A rid \in Rids, obj \in DomainObjects :
              \A r \in CallbackIns(s, rid, obj) :
                 /\ \E i \in Rows(r.profiles) :
                       /\ r.profiles[i].provider = enabled
                       /\ r.profiles[i].rid = rid
                       /\ r.profiles[i].target = obj
                 /\ UserRows(r.profiles) = UserRows(profiles)
                 /\ r.sess.user = session[s].user

\* a callback of a logged-in session has bound an identity to the article:
\* that identity is bound to no account
C7_Witness ==
    /\ last.op \in CallbackOps
    /\ last.resp.kind = "redirect"
    /\ session["s1"].user # Anonymous
    /\ \E i \in Rows(profiles) :
          /\ profiles[i].target = Article
          /\ BoundUsers(profiles[i].rid) = {}

\* C8: a step that logs the session in leaves no pending registration in
\* the session.
C8_NoPendingAfterLogin ==
    [][\A s \in Sessions :
        (/\ Did(LoginOps \cup {"setup"}, s)
         /\ session'[s].user # Anonymous
         /\ session'[s].user # session[s].user)
        => (~session'[s].sr_user /\ session'[s].sr_profile = NoProfile)]_vars

\* C9: no two profiles have the same provider, remote id and target type.
C9_ProfileUnique ==
    \A i, j \in Rows(profiles) :
        (/\ i # j
         /\ SameIdentity(profiles[i], profiles[j]))
        => profiles[i].target[1] # profiles[j].target[1]

SetupRequests(s) ==
    {setup(Ctx(s), GENERATE_USERNAME, "GET", NoPost, PlainRequest)}
        \cup {SetupPosted(s, post) : post \in Posts}

\* C11: setup called by a session without a pending registration renders
\* the template with error set, raises nothing, and leaves the accounts,
\* the profiles and the session (its login included) as they were.
C11_MissingPending ==
    \A s \in Main.S :
        ~HasPending(s)
        => \A r \in SetupRequests(s) :
              /\ r.resp = Render("setup.html", {"error"})
              /\ r.users = users
              /\ r.profiles = profiles
              /\ r.sess = session[s]

\* setup was called again after it had consumed the pending registration
\* and logged the session in: it rendered the error
C11_Witness ==
    /\ last.op = "setup"
    /\ last.resp = Render("setup.html", {"error"})
    /\ ~HasPending("s1")
    /\ session["s1"].user # Anonymous
    /\ \E i \in Rows(profiles) : profiles[i].target = UserTarget(session["s1"].user)

\* C12: the redirect of a disconnect that removed a profile goes to the
\* target's own url when it has one, else to the url stored in the session
\* when there is one, else to the setting when set, else to "/".
C12_RedirectPriority ==
    \A s \in Override.S, target \in Targets :
        LET r == disconnect(Ctx(s), "POST", enabled, target) IN
        r.resp.kind = "redirect"
        => r.resp.to = post_disconnect_redirect_url(target, session[s].disconnect_url)

\* the context a request of the same session finds after a request returned r
After(r) == [users |-> r.users, profiles |-> r.profiles, sess |-> r.sess]

\* C13: a POST of disconnect repeated after the POST that removed the
\* profile leaves the accounts and the profiles as the first POST left
\* them, and answers with the redirect of a removal.
C13_DisconnectTwice ==
    \A s \in Main.S, target \in Targets :
        LET once == disconnect(Ctx(s), "POST", enabled, target)
            twice == disconnect(After(once), "POST", enabled, target)
        IN  once.resp.kind = "redirect"
            => /\ twice.users = once.users
               /\ twice.profiles = once.profiles
               /\ twice.resp = once.resp

\* the saved profiles that have the identity of the pending profile of s
PendingMatches(s) ==
    {i \in Rows(profiles) : SameIdentity(profiles[i], session[s].sr_profile)}

\* setup took the shortcut: it saved the pending profile and showed no form
Shortcut(s, r) ==
    \/ r.resp.kind # "render"
    \/ r.profiles # profiles

\* C14: setup with a pending registration whose identity an existing
\* profile binds to an account shows no form, creates no account, saves
\* the pending profile bound to that account and logs the session in as
\* that account; it takes this shortcut only when such a profile, bound to
\* an account, exists.
C14_SiblingShortcut ==
    \A s \in Main.S :
        HasPending(s)
        => \A r \in SetupRequests(s) :
              /\ \A i \in PendingMatches(s) :
                    IsUserProfile(profiles[i])
                    => /\ r.resp.kind = "redirect"
                       /\ r.users = users
                       /\ r.profiles = Append(profiles,
                             [session[s].sr_profile EXCEPT !.target = profiles[i].target])
                       /\ r.sess.user = profiles[i].target[2]
              /\ (~GENERATE_USERNAME /\ Shortcut(s, r))
                 => \/ \E i \in PendingMatches(s) : IsUserProfile(profiles[i])
                    \/ PendingMatches(s) = {}

\* C15: with username generation on, a setup request of either method by a
\* session whose pending identity no profile has adds one account, with a
\* generated name no account had and the unusable password, saves the
\* pending profile bound to it, logs the session in as it and redirects:
\* no form is rendered.
C15_AutoProvision ==
    \A s \in Main.S :
        (/\ GENERATE_USERNAME
         /\ HasPending(s)
         /\ PendingUnlinked(s))
        => \A r \in SetupRequests(s) :
              LET n == Len(users) + 1 IN
              /\ Len(r.users) = n
              /\ SubSeq(r.users, 1, Len(users)) = users
              /\ r.users[n].username = GeneratedUsername(users)
              /\ r.users[n].username \notin Usernames(users)
              /\ r.users[n].password = UnusablePassword
              /\ r.profiles = Append(profiles,
                    [session[s].sr_profile EXCEPT !.target = UserTarget(n)])
              /\ r.sess.user = n
              /\ ~r.sess.sr_user
              /\ r.resp.kind = "redirect"

\* setup has generated the second account for the session and logged it in
C15_Witness ==
    /\ last.op = "setup"
    /\ last.resp.kind = "redirect"
    /\ GENERATE_USERNAME
    /\ Len(users) = 2
    /\ users[2] = NewUser(Uuid4[2], UnusablePassword)
    /\ session["s1"].user = 2
    /\ \E i \in Rows(profiles) : profiles[i].target = UserTarget(2)

\* C16: whatever the order of the steps of the requests handled at the
\* same time, an identity is bound to at most one account, and no two
\* profiles have the same provider, remote id and target.
C16_RaceAtMostOne ==
    /\ \A rid \in Rids : Cardinality(BoundUsers(rid)) <= 1
    /\ \A i, j \in Rows(profiles) :
          (i # j /\ SameIdentity(profiles[i], profiles[j]))
          => profiles[i].target # profiles[j].target

\* C17: a create(...) that meets the uniqueness constraint, because
\* another request created the profile after this request looked it up,
\* does not fail: the request ends with the redirect it would have given
\* and the profiles hold the one row of the link.
C17_ConstraintRecovery ==
    \A w \in Workers :
        (/\ inflight[w].pc = "create"
         /\ DuplicateLink(profiles, inflight[w].row))
        => LET r == create_unique(Ctx(inflight[w].s), inflight[w]) IN
           /\ r.resp = inflight[w].resp
           /\ Len(r.profiles) = Len(profiles)

\* C18: a setup request that ends in an error leaves no account it
\* created and no profile without a target: the accounts are those of
\* before the request.
C18_AllOrNothing ==
    [][(last'.op = "setup" /\ last'.resp.kind = "error")
        => /\ users' = users
           /\ \A i \in Rows(profiles') : profiles'[i].target # Unsaved]_vars

\* C19: a POST of setup whose username is the one of an account without a
\* usable password changes no account, no profile and nothing in the
\* session, and renders the username form without claim_account; as this
\* holds in every state, no sequence of such posts binds the pending
\* profile to that account.
C19_NotClaimable ==
    \A s \in Process.S, post \in Posts, a \in 1..Len(users) :
        (/\ ChoosesUsername(s)
         /\ users[a].username = post.username
         /\ ~has_usable_password(users[a]))
        => LET r == SetupPosted(s, post) IN
           /\ r.users = users
           /\ r.profiles = profiles
           /\ r.sess = session[s]
           /\ Rendered("setup", r.resp) = Render("setup.html", {"form"})

\* what the login callback of the provider switched on returns to session
\* s when the provider gives no remote id (None, no key, no successful
\* verification) or an empty one
NoCredentialCallbacks(s) ==
    CASE enabled = "facebook" ->
            {facebook_login(Ctx(s), uid, PlainRequest) : uid \in {None, NoCred}}
      [] enabled = "twitter" ->
            {twitter(Ctx(s), id, token, PlainRequest) : id \in {Absent, NoCred}, token \in Main.T}
      [] enabled = "openid" ->
            {openid_callback(Ctx(s), FALSE, None, PlainRequest),
             openid_callback(Ctx(s), TRUE, NoCred, PlainRequest)}

\* C20: a login callback of an anonymous session that is given no remote
\* id, or an empty one, renders its template with the error, and leaves
\* the session (no pending registration, no login), the accounts and the
\* profiles as they were, whatever the provider.
C20_NoCredentials ==
    \A s \in Main.S :
        (session[s].user = Anonymous /\ ~Carried(session[s]))
        => \A r \in NoCredentialCallbacks(s) :
              /\ r.resp.kind = "render"
              /\ "error" \in r.resp.ctx
              /\ r.sess = session[s]
              /\ r.users = users
              /\ r.profiles = profiles

\* what the callback of the provider switched on returns to session s for
\* the verified identity rid when the request names no connect object
UserCallbacks(s, rid) ==
    CASE enabled = "facebook" ->
            {facebook_connect(Ctx(s), TRUE, rid, token, NoQuery, PlainRequest) : token \in Main.T}
      [] enabled = "twitter" -> {twitter(Ctx(s), rid, token, PlainRequest) : token \in Main.T}
      [] enabled = "openid" -> {openid_callback(Ctx(s), TRUE, rid, PlainRequest)}

\* the profile of (enabled provider, rid) bound to account u is among ps
BoundTo(ps, rid, u) ==
    \E i \in Rows(ps) :
        /\ ps[i].provider = enabled
        /\ ps[i].rid = rid
        /\ ps[i].target = UserTarget(u)

\* C21 (as claimed): after a callback of a session logged in as U that
\* carries no connect object, a profile of the identity bound to U exists,
\* also when the identity was bound to another account.
C21_ConnectAlways ==
    \A s \in Main.S, rid \in Rids :
        (session[s].user # Anonymous /\ ~Carried(session[s]))
        => \A r \in UserCallbacks(s, rid) :
              r.resp.kind = "redirect" => BoundTo(r.profiles, rid, session[s].user)

\* C21 (as amended): a callback of a session logged in as U that carries
\* no connect object leaves U logged in, writes no pending registration and
\* changes no account; when no account has the identity it adds the one
\* profile of the identity bound to U and redirects, and when an account
\* has it, U or another, it adds no profile and rebinds none.
C21_ConnectCurrentUser ==
    \A s \in Main.S, rid \in Rids :
        (session[s].user # Anonymous /\ ~Carried(session[s]))
        => \A r \in UserCallbacks(s, rid) :
              /\ r.sess.user = session[s].user
              /\ r.sess.sr_user = session[s].sr_user
              /\ r.sess.sr_profile = session[s].sr_profile
              /\ r.users = users
              /\ BoundUsers(rid) = {}
                 => /\ r.resp.kind = "redirect"
                    /\ Len(r.profiles) = Len(profiles) + 1
                    /\ SubSeq(r.profiles, 1, Len(profiles)) = profiles
                    /\ r.profiles[Len(r.profiles)].provider = enabled
                    /\ r.profiles[Len(r.profiles)].rid = rid
                    /\ r.profiles[Len(r.profiles)].target = UserTarget(session[s].user)
              /\ BoundUsers(rid) # {}
                 => /\ Len(r.profiles) = Len(profiles)
                    /\ \A i \in Rows(profiles) : r.profiles[i].target = profiles[i].target

\* a callback of the logged-in account has bound a second identity to it
C21_Witness ==
    /\ last.op \in CallbackOps
    /\ last.resp.kind = "redirect"
    /\ session["s1"].user # Anonymous
    /\ \A rid \in Rids : BoundTo(profiles, rid, session["s1"].user)

\* requests with and without a referring page and a next parameter
Requests ==
    [get_next : {Absent, NextUrl}, post_next : {Absent}, referer : {Absent, Referer}]

\* what session s gets back when the provider rejects or the user declines
Rejections(s, rq) ==
    CASE enabled = "facebook" ->
            {facebook_connect(Ctx(s), FALSE, None, NoCred, info, rq) : info \in Main.Q}
      [] enabled = "twitter" ->
            {oauth_callback(Ctx(s), TRUE, valid, rq) : valid \in BOOLEAN}
            \cup {oauth_callback(Ctx(s), FALSE, FALSE, rq)}
      [] enabled = "openid" -> {openid_callback(Ctx(s), FALSE, None, rq)}

\* C22: when the provider rejects or the user declines (oauth_callback with
\* 'denied', facebook_connect without authorized user info, an OAuth or
\* OpenID client that is not valid), the response is a redirect with a notice
\* to the referring page, or to the next URL when there is no referrer, or a
\* render, and no account, profile, pending registration or login changes.
C22_RejectedLocally ==
    \A s \in Carry.S, rq \in Requests :
        \A r \in Rejections(s, rq) :
            /\ r.users = users
            /\ r.profiles = profiles
            /\ r.sess.user = session[s].user
            /\ r.sess.sr_user = session[s].sr_user
            /\ r.sess.sr_profile = session[s].sr_profile
            /\ \/ r.resp.kind = "render"
               \/ /\ rq.referer # Absent
                  /\ r.resp = Notice(rq.referer)
               \/ /\ rq.referer = Absent
                  /\ r.resp = Notice(_get_next(session[s], rq).url)

\* a logged-in session with a profile has been sent back to the referring
\* page after the user denied access
C22_Witness ==
    /\ last.op = "oauth_callback"
    /\ last.resp = Notice(Referer)
    /\ session[last.s].user # Anonymous
    /\ Len(profiles) > 0

\* every profile of the step's start is still there after it, at its place,
\* with its provider, remote id and target
ProfilesKept ==
    /\ Len(profiles') >= Len(profiles)
    /\ \A i \in Rows(profiles) :
          /\ profiles'[i].provider = profiles[i].provider
          /\ profiles'[i].rid = profiles[i].rid
          /\ profiles'[i].target = profiles[i].target

\* the step deletes the one profile of the enabled network and of target
DeletesNamed(target) ==
    /\ Get(profiles, Filter(enabled, {"content_type", "object_id"}, None, target)) = "found"
    /\ Deleted(profiles', target)

\* C23: in every step the profiles lose a row only in a step of disconnect
\* that redirects (the confirmed POST), and that step removes only the one
\* profile the request names; every other step keeps every profile.
C23_DeletedOnlyByDisconnect ==
    [][\/ ProfilesKept
       \/ /\ last'.op = "disconnect"
          /\ last'.resp.kind = "redirect"
          /\ \E target \in Targets : DeletesNamed(target)]_vars

\* a confirmed disconnect has deleted one profile and left another one
C23_Witness ==
    /\ last.op = "disconnect"
    /\ last.resp.kind = "redirect"
    /\ Len(profiles) > 0

\* the account logged in to session s, if any, is active
ActiveLogin(s) == session[s].user # Anonymous => users[session[s].user].is_active

\* C24: in every reachable state the account a session is logged in as is
\* an active account, on the matched-login paths of the callbacks and on
\* the paths of setup that end in _authenticate_login_redirect.
C24_ActiveLogin == \A s \in Sessions : ActiveLogin(s)

\* what session s gets back from the requests that complete a login or a
\* connect: the callback for the identity rid, made without ?next=, and setup
Completions(s, rid) ==
    LoginCallbacks(s, rid) \cup UserCallbacks(s, rid)
    \cup {setup(Ctx(s), GENERATE_USERNAME, "GET", NoPost, PlainRequest)}
    \cup {setup(Ctx(s), GENERATE_USERNAME, "POST", post, PlainRequest) : post \in Posts}

\* C25: when the session holds a 'next' URL, the request that completes
\* the login or the connect (any redirect but the hand-over to setup)
\* redirects to that URL and removes it from the session.
C25_NextCarried ==
    \A s \in Carry.S, rid \in Carry.R :
        session[s].next # Absent
        => \A r \in Completions(s, rid) :
              (r.resp.kind = "redirect" /\ r.resp.to # SETUP_URL)
              => /\ r.resp.to = session[s].next
                 /\ r.sess.next = Absent

\* a request of session s to a view with a default dict, and what the view
\* returns for it from the request, the session and the store
ObservedRequests(s) ==
    {[view |-> "setup", r |-> setup(Ctx(s), GENERATE_USERNAME, "GET", NoPost, PlainRequest)]}
    \cup {[view |-> "setup", r |-> setup(Ctx(s), GENERATE_USERNAME, "POST", post, PlainRequest)] :
             post \in Posts}
    \cup {[view |-> "facebook_login", r |-> facebook_login(Ctx(s), uid, PlainRequest)] :
             uid \in Rids \cup {None}}
    \cup {[view |-> "facebook_connect",
           r |-> facebook_connect(Ctx(s), TRUE, uid, token, NoQuery, PlainRequest)] :
             uid \in Rids \cup {None}, token \in Tokens}

\* C26: the outcome of a request of session s1 (the render and its
\* context) is the one its request, its session and the store determine,
\* whatever requests session s2 has made before in the same process.
C26_NoLeak ==
    \A s \in Observer.S :
        \A o \in ObservedRequests(s) : Rendered(o.view, o.r.resp) = o.r.resp

============================================================================
